---- MODULE Spec2Model ----
(***************************************************************************)
(* Model of folderSizer/app.py: the per-directory size pass                *)
(* (perform_analysis, analyze_folder, get_total_folder_size,               *)
(* analyze_subfolder, split_analysis, analyze_files_in_directory), the     *)
(* navigation history kept by analyze_and_plot / go_back, the main loop    *)
(* that calls analyze_and_plot, and format_size.                           *)
(*                                                                         *)
(* The filesystem is a small tree  R/{f, A/{a, A1/{a1f}}, B/{b}}.  Every   *)
(* directory has a status: "ok", "denied" (listing it raises               *)
(* PermissionError) or "gone" (it does not exist; using it raises          *)
(* FileNotFoundError).  The environment may change a status at any time,   *)
(* and may make a file one whose is_file()/stat() raises PermissionError.  *)
(* The files that exist are the domain of fsize; SpecScenario starts from  *)
(* the tree  R/{f, A/{a}, B/{b, b2}}  with fixed sizes.                    *)
(* time.time() is not modelled: the test  elapsed_time > 3  is a           *)
(* nondeterministic choice.                                                *)
(***************************************************************************)
EXTENDS Integers, Sequences, FiniteSets, TLC

\* ------------------------------------------------------------------ bounds
MaxSize == 1          \* a file is empty or has MaxSize bytes
MaxFsChanges == 1     \* environment changes of the filesystem per run
MaxHist == 2          \* longest history handed to plot_folder_sizes in SpecNav
MaxOff == 2           \* format_size is tried up to MaxOff bytes around each threshold

\* width of the pass's pool: the parameter max_workers of analyze_and_plot
\* (8 when the main loop calls it), small here so that the pool can be full
max_workers == 2

\* -------------------------------------------------------------- filesystem
Dirs == {"R", "A", "B", "A1"}
BaseFiles == {"f", "a", "b", "a1f"}
Files == BaseFiles \cup {"b2"}
Status == {"ok", "denied", "gone"}

\* the paths the folder picker can hand to analyze_and_plot
Targets == {"R", "A", "f", "nopath"}

ParentOf(d) == CASE d = "A" -> "R" [] d = "B" -> "R" [] d = "A1" -> "A" [] OTHER -> "none"
DirOf(x) ==
    CASE x = "f" -> "R" [] x = "a" -> "A" [] x = "b" -> "B" [] x = "b2" -> "B"
      [] OTHER -> "A1"

Children(d) == {c \in Dirs : ParentOf(c) = d}

VARIABLES
    pc,            \* position of the main (UI) thread
    history,       \* analyze_and_plot: history
    directory,     \* perform_analysis: directory
    folder_sizes,  \* analyze_and_plot: folder_sizes
    files_sizes,   \* analyze_and_plot: files_sizes
    files_info,    \* analyze_and_plot: files_info
    futures,       \* perform_analysis: the subfolders a task was submitted for
    tpc,           \* position of each subfolder's analyze_folder task
    tfiles,        \* analyze_folder: files_size of each task
    ttotal,        \* analyze_folder / get_total_folder_size: total_size of each task
    npc,           \* position of each nested analyze_subfolder task of split_analysis
    nres,          \* result of each nested task
    skips,         \* "Skipping inaccessible ..." lines printed in this pass, per path
    submitted,     \* executor.submit calls of this pass, per subfolder
    split,         \* subfolders whose walk took the split branch in this pass
    listing,       \* the subfolders that existed when the pass listed its directory
    out,           \* last line printed by analyze_and_plot itself
    event,         \* last UI event delivered to the plot window
    status,        \* filesystem: status of each directory
    fsize,         \* filesystem: size of each file that exists
    unstat,        \* filesystem: the files whose is_file()/stat() raises
    fsChanges,     \* number of environment changes so far
    fs_static,     \* no environment change since the pass listed its directory
    size,          \* format_size: the argument of the next call
    formatted      \* format_size: argument and result of the last call

vars == <<pc, history, directory, folder_sizes, files_sizes, files_info, futures,
          tpc, tfiles, ttotal, npc, nres, skips, submitted, split, listing, out,
          event, status, fsize, unstat, fsChanges, fs_static, size, formatted>>

passVars == <<futures, tpc, tfiles, ttotal, npc, nres, skips, submitted, split,
              listing>>
fsVars == <<status, fsize, unstat, fsChanges>>
fmtVars == <<size, formatted>>

\* the files iterdir() yields for d
FilesIn(d) == {x \in DOMAIN fsize : DirOf(x) = d}

\* ------------------------------------------------------------ pure helpers
RECURSIVE SumOver(_, _)
SumOver(S, f) ==
    IF S = {} THEN 0
    ELSE LET x == CHOOSE y \in S : TRUE IN f[x] + SumOver(S \ {x}, f)

EmptyMap == [x \in {} |-> 0]
ZeroDirs == [d \in Dirs |-> 0]
ZeroPaths == [q \in Dirs \cup Files |-> 0]

\* Path.exists(): no component of the path is missing
RECURSIVE Exists(_)
Exists(p) ==
    IF p \in Files THEN p \in DOMAIN fsize /\ Exists(DirOf(p))
    ELSE IF p \notin Dirs THEN FALSE
    ELSE status[p] # "gone" /\ (ParentOf(p) = "none" \/ Exists(ParentOf(p)))

\* Path.is_dir()
IsDir(p) == p \in Dirs /\ Exists(p)

\* the entries of d that iterdir() yields and is_dir() accepts
ListedDirs(d) == {c \in Children(d) : status[c] # "gone"}

\* an immediate-files size that is always 0
ImmediateFilesSize_Zero(d) == 0

\* sum(item.stat().st_size for item in path.iterdir() if item.is_file())
ImmediateFilesSize(d) == SumOver(FilesIn(d), fsize)

\* analyze_subfolder: sum of the files rglob('*') reaches under folder
RECURSIVE analyze_subfolder(_)
analyze_subfolder(folder) ==
    IF status[folder] # "ok" THEN 0
    ELSE ImmediateFilesSize(folder)
         + SumOver(ListedDirs(folder), [c \in Dirs |-> analyze_subfolder(c)])

\* the "Skipping inaccessible ..." lines after one more for each path of S
Skipped(S) == [q \in Dirs \cup Files |-> IF q \in S THEN skips[q] + 1 ELSE skips[q]]

\* the files of d whose is_file()/stat() raises
BadFilesIn(d) == FilesIn(d) \cap unstat

\* the files rglob('*') reaches under folder
RECURSIVE Reached(_)
Reached(folder) ==
    IF status[folder] # "ok" THEN {}
    ELSE FilesIn(folder) \cup UNION {Reached(c) : c \in ListedDirs(folder)}

\* analyze_subfolder, lines 31-39: the totals it can return.  When
\* is_file() or stat() of a reached file raises, the loop is left at that
\* entry (line 37) and the total is that of the files enumerated before it;
\* the order is the one the directory listing happens to have.
SubfolderTotals(folder) ==
    IF Reached(folder) \cap unstat = {} THEN {analyze_subfolder(folder)}
    ELSE {SumOver(S, fsize) : S \in SUBSET (Reached(folder) \ unstat)}

\* one of its possible totals for each subfolder of C
ChildTotals(C) ==
    {g \in [C -> UNION {SubfolderTotals(c) : c \in C}] :
        \A c \in C : g[c] \in SubfolderTotals(c)}

\* a format_size whose comparisons include the threshold
format_size_Inclusive(n) ==
    IF n <= 1024 THEN <<n, "B">>
    ELSE IF n <= 1048576 THEN <<n \div 1024, "KB">>
    ELSE IF n <= 1073741824 THEN <<n \div 1048576, "MB">>
    ELSE <<n \div 1073741824, "GB">>

\* format_size, lines 78-86: the number and the unit of the string returned
format_size(n) ==
    IF n < 1024 THEN <<n, "B">>
    ELSE IF n < 1048576 THEN <<n \div 1024, "KB">>
    ELSE IF n < 1073741824 THEN <<n \div 1048576, "MB">>
    ELSE <<n \div 1073741824, "GB">>

\* the snapshot maps after  .clear()
Cleared == EmptyMap

\* ------------------------------------------------------------------- Init
NoPass ==
    /\ futures = {}
    /\ tpc = [d \in Dirs |-> "none"]
    /\ tfiles = ZeroDirs
    /\ ttotal = ZeroDirs
    /\ npc = [d \in Dirs |-> "none"]
    /\ nres = ZeroDirs
    /\ skips = ZeroPaths
    /\ submitted = ZeroDirs
    /\ split = {}
    /\ listing = {}

\* format_size has not been called
NoFormat == size = 0 /\ formatted = <<>>

Init ==
    /\ pc = "idle"
    /\ history = <<>>
    /\ directory = "none"
    /\ folder_sizes = EmptyMap
    /\ files_sizes = EmptyMap
    /\ files_info = EmptyMap
    /\ NoPass
    /\ out = "none"
    /\ event = <<"none">>
    /\ status = [d \in Dirs |-> "ok"]
    /\ fsize \in [BaseFiles -> {0, MaxSize}]
    /\ unstat = {}
    /\ fsChanges = 0
    /\ fs_static = TRUE
    /\ NoFormat

\* perform_analysis, lines 101-107: the maps are cleared and a new pass begins
ResetPass ==
    /\ futures' = {}
    /\ tpc' = [d \in Dirs |-> "none"]
    /\ tfiles' = ZeroDirs
    /\ ttotal' = ZeroDirs
    /\ npc' = [d \in Dirs |-> "none"]
    /\ nres' = ZeroDirs
    /\ skips' = ZeroPaths
    /\ submitted' = ZeroDirs
    /\ split' = {}
    /\ listing' = {}

\* a pass that begins without clearing the maps
BeginPass_NoClear(dir) ==
    /\ directory' = dir
    /\ UNCHANGED <<folder_sizes, files_sizes, files_info>>
    /\ ResetPass
    /\ fs_static' = TRUE
    /\ pc' = "submit"

BeginPass(dir) ==
    /\ directory' = dir
    /\ folder_sizes' = Cleared
    /\ files_sizes' = Cleared
    /\ files_info' = Cleared
    /\ ResetPass
    /\ fs_static' = TRUE
    /\ pc' = "submit"

\* ------------------------------------------------------- analyze_and_plot
\* a guard that forgets  path.is_dir()
PathAccepted_ExistsOnly(t) == Exists(t)

\* lines 90-93: the guard on the picked path
PathAccepted(t) == Exists(t) /\ IsDir(t)

\* line 98
InitialHistory(t) == <<t>>

analyze_and_plot(t) ==
    /\ pc = "idle"
    /\ IF PathAccepted(t)
       THEN /\ history' = InitialHistory(t)
            /\ BeginPass(t)
            /\ out' = "analyzing"
       ELSE /\ out' = "Directory does not exist."
            /\ UNCHANGED <<pc, history, directory, folder_sizes, files_sizes,
                           files_info, passVars, fs_static>>
    /\ event' = <<"none">>
    /\ UNCHANGED <<fsVars, fmtVars>>

\* ------------------------------------------------------- perform_analysis
\* a pass that submits tasks for the readable subfolders only
SubmittedFor_OnlyReadable(dir) == {c \in Children(dir) : status[c] = "ok"}

\* lines 108-110: list the directory and submit one task per subfolder.
\* directory.iterdir() and is_dir() are outside every try: an error ends
\* the program.
SubmittedFor(dir) == ListedDirs(dir)

Submit ==
    /\ pc = "submit"
    /\ IF directory \in Dirs /\ status[directory] = "ok" /\ BadFilesIn(directory) = {}
       THEN /\ futures' = SubmittedFor(directory)
            /\ tpc' = [d \in Dirs |-> IF d \in SubmittedFor(directory) THEN "queued" ELSE "none"]
            /\ submitted' = [d \in Dirs |-> IF d \in SubmittedFor(directory)
                                            THEN submitted[d] + 1 ELSE submitted[d]]
            /\ listing' = {c \in Dirs : ParentOf(c) = directory /\ status[c] # "gone"}
            /\ pc' = "rootfiles"
       ELSE /\ pc' = "crashed"
            /\ UNCHANGED <<futures, tpc, submitted, listing>>
    /\ UNCHANGED <<history, directory, folder_sizes, files_sizes, files_info,
                   tfiles, ttotal, npc, nres, skips, split, out, event,
                   fsVars, fs_static, fmtVars>>

\* analyze_files_in_directory, lines 67-75
RootFilesInfo(dir) == [x \in FilesIn(dir) |-> fsize[x]]

\* line 112.  When iterdir() fails before the first entry, the handler at
\* line 74 reads the unbound name  file : the UnboundLocalError leaves
\* perform_analysis.  When is_file() of an entry raises, the handler prints
\* that entry and the files enumerated before it are returned.
RootFiles ==
    /\ pc = "rootfiles"
    /\ IF status[directory] = "ok"
       THEN /\ IF BadFilesIn(directory) = {}
               THEN /\ files_info' = RootFilesInfo(directory)
                    /\ UNCHANGED skips
               ELSE \E bad \in BadFilesIn(directory),
                       S \in SUBSET (FilesIn(directory) \ unstat) :
                        /\ files_info' = [x \in S |-> fsize[x]]
                        /\ skips' = Skipped({bad})
            /\ pc' = "collect"
       ELSE /\ pc' = "crashed"
            /\ UNCHANGED <<files_info, skips>>
    /\ UNCHANGED <<history, directory, folder_sizes, files_sizes, futures, tpc,
                   tfiles, ttotal, npc, nres, submitted, split, listing,
                   out, event, fsVars, fs_static, fmtVars>>

\* ------------------------------------------------- worker tasks of the pass
PassRunning == pc \in {"rootfiles", "collect"}

\* tasks that occupy a worker of the pass's pool
Busy == {d \in Dirs : tpc[d] \in {"l58", "l14", "l23", "l45", "l48"}}

\* a worker of the pool takes a queued task
TaskStart(s) ==
    /\ PassRunning
    /\ tpc[s] = "queued"
    /\ Cardinality(Busy) < max_workers
    /\ tpc' = [tpc EXCEPT ![s] = "l58"]
    /\ UNCHANGED <<pc, history, listing, directory, folder_sizes, files_sizes, files_info,
                   futures, tfiles, ttotal, npc, nres, skips, submitted, split,
                   out, event, fsVars, fs_static, fmtVars>>

\* the subfolders of s whose listing fails inside analyze_subfolder's rglob
FailingChildren(s) == {c \in ListedDirs(s) : status[c] # "ok"}

\* analyze_folder, line 58: the immediate files of the subfolder.
\* An error here is caught at line 61: the task returns (path, 0, 0).
AnalyzeFolderFiles(s) ==
    /\ PassRunning
    /\ tpc[s] = "l58"
    /\ IF status[s] = "ok" /\ BadFilesIn(s) = {}
       THEN /\ tfiles' = [tfiles EXCEPT ![s] = ImmediateFilesSize(s)]
            /\ tpc' = [tpc EXCEPT ![s] = "l14"]
            /\ UNCHANGED skips
       ELSE /\ skips' = Skipped({s})
            /\ tpc' = [tpc EXCEPT ![s] = "done"]
            /\ UNCHANGED tfiles
    /\ UNCHANGED <<pc, history, listing, directory, folder_sizes, files_sizes, files_info,
                   futures, ttotal, npc, nres, submitted, split, out, event,
                   fsVars, fs_static, fmtVars>>

\* get_total_folder_size, lines 14-21: the value of total_size after a loop
\* in which no entry raised
WalkTotal(path) ==
    IF status[path] = "ok"
    THEN ImmediateFilesSize(path)
         + SumOver(ListedDirs(path), [c \in Dirs |-> analyze_subfolder(c)])
    ELSE 0

\* the subfolders of C in which analyze_subfolder meets a file that raises
RaisingChildren(C) == {c \in C : Reached(c) \cap unstat # {}}

\* get_total_folder_size, lines 11-21.  An error of path.iterdir() is caught
\* at line 20.  Whether rglob reports or swallows the error of an unreadable
\* nested folder depends on the pathlib at hand: either may happen.  When
\* is_file() of an entry of path raises, the loop is left at that entry
\* (line 20): F and C are the files and subfolders enumerated before it.
GetTotalWalk(s) ==
    /\ PassRunning
    /\ tpc[s] = "l14"
    /\ IF status[s] # "ok"
       THEN /\ ttotal' = [ttotal EXCEPT ![s] = WalkTotal(s)]
            /\ skips' = Skipped({s})
       ELSE \E F \in (IF BadFilesIn(s) = {} THEN {FilesIn(s)}
                       ELSE SUBSET (FilesIn(s) \ unstat)),
               C \in (IF BadFilesIn(s) = {} THEN {ListedDirs(s)}
                       ELSE SUBSET ListedDirs(s)),
               noisy \in BOOLEAN :
                \E g \in ChildTotals(C) :
                    /\ (FailingChildren(s) \cap C = {} => ~noisy)
                    /\ ttotal' = [ttotal EXCEPT ![s] = SumOver(F, fsize) + SumOver(C, g)]
                    /\ skips' = Skipped((IF BadFilesIn(s) = {} THEN {} ELSE {s})
                                        \cup RaisingChildren(C)
                                        \cup (IF noisy THEN FailingChildren(s) \cap C ELSE {}))
    /\ tpc' = [tpc EXCEPT ![s] = "l23"]
    /\ UNCHANGED <<pc, history, listing, directory, folder_sizes, files_sizes, files_info,
                   futures, tfiles, npc, nres, submitted, split, out, event,
                   fsVars, fs_static, fmtVars>>

\* get_total_folder_size, lines 23-24:  elapsed_time > 3  is decided by the
\* clock; when it is false the walk's total is returned (lines 28, 59-60)
ElapsedCheck(s) ==
    /\ PassRunning
    /\ tpc[s] = "l23"
    /\ \E slow \in BOOLEAN :
          IF slow
          THEN /\ tpc' = [tpc EXCEPT ![s] = "l45"]
               /\ split' = split \cup {s}
          ELSE /\ tpc' = [tpc EXCEPT ![s] = "done"]
               /\ UNCHANGED split
    /\ UNCHANGED <<pc, history, listing, directory, folder_sizes, files_sizes, files_info,
                   futures, tfiles, ttotal, npc, nres, skips, submitted, out,
                   event, fsVars, fs_static, fmtVars>>

\* split_analysis, lines 45-46: the nested tasks, one per directory child
SplitTasks(path) == ListedDirs(path)

\* split_analysis, lines 43-46, in a pool of its own.  path.iterdir() and
\* is_dir() are in no try of split_analysis or get_total_folder_size: their
\* error reaches analyze_folder's handler (line 61) after files_size was
\* assigned, and total_size keeps its initial 0.
SplitSubmit(s) ==
    /\ PassRunning
    /\ tpc[s] = "l45"
    /\ IF status[s] = "ok" /\ BadFilesIn(s) = {}
       THEN /\ npc' = [d \in Dirs |-> IF d \in SplitTasks(s) THEN "queued" ELSE npc[d]]
            /\ tpc' = [tpc EXCEPT ![s] = "l48"]
            /\ UNCHANGED <<ttotal, skips>>
       ELSE /\ ttotal' = [ttotal EXCEPT ![s] = 0]
            /\ skips' = Skipped({s})
            /\ tpc' = [tpc EXCEPT ![s] = "done"]
            /\ UNCHANGED npc
    /\ UNCHANGED <<pc, history, listing, directory, folder_sizes, files_sizes, files_info,
                   futures, tfiles, nres, submitted, split, out, event,
                   fsVars, fs_static, fmtVars>>

\* the nested tasks that occupy a worker of a split_analysis pool
NestedRunning == {c \in Dirs : npc[c] = "l34"}

\* a worker of split_analysis's own pool (line 43: ThreadPoolExecutor() with
\* the default width, more than the subfolders of the tree) takes a nested
\* task
NestedStart(c) ==
    /\ PassRunning
    /\ npc[c] = "queued"
    /\ npc' = [npc EXCEPT ![c] = "l34"]
    /\ UNCHANGED <<pc, history, listing, directory, folder_sizes, files_sizes, files_info,
                   futures, tpc, tfiles, ttotal, nres, skips, submitted, split,
                   out, event, fsVars, fs_static, fmtVars>>

\* a nested task: analyze_subfolder(subfolder, max_depth), lines 31-39
NestedRun(c) ==
    /\ PassRunning
    /\ npc[c] = "l34"
    /\ nres' \in {[nres EXCEPT ![c] = t] : t \in SubfolderTotals(c)}
    /\ npc' = [npc EXCEPT ![c] = "done"]
    /\ \E noisy \in BOOLEAN :
          /\ noisy = IF status[c] = "ok" THEN Reached(c) \cap unstat # {} ELSE noisy
          /\ skips' = IF noisy THEN Skipped({c}) ELSE skips
    /\ UNCHANGED <<pc, history, listing, directory, folder_sizes, files_sizes, files_info,
                   futures, tpc, tfiles, ttotal, submitted, split, out, event,
                   fsVars, fs_static, fmtVars>>

\* the nested tasks split_analysis submitted for path
NestedOf(path) == {c \in Children(path) : npc[c] # "none"}

\* split_analysis, lines 48-51: the sum of the nested results
SplitTotal(path) == SumOver(NestedOf(path), nres)

\* split_analysis, lines 48-51, and get_total_folder_size, lines 26-28:
\* the split total replaces the walk's total
SplitJoin(s) ==
    /\ PassRunning
    /\ tpc[s] = "l48"
    /\ \A c \in NestedOf(s) : npc[c] = "done"
    /\ ttotal' = [ttotal EXCEPT ![s] = SplitTotal(s)]
    /\ npc' = [d \in Dirs |-> IF d \in NestedOf(s) THEN "none" ELSE npc[d]]
    /\ tpc' = [tpc EXCEPT ![s] = "done"]
    /\ UNCHANGED <<pc, history, listing, directory, folder_sizes, files_sizes, files_info,
                   futures, tfiles, nres, skips, submitted, split, out, event,
                   fsVars, fs_static, fmtVars>>

\* analyze_folder, line 64: the tuple a finished task returns
TaskResult(s) == <<s, tfiles[s], ttotal[s]>>

\* perform_analysis, lines 114-117: one completed future is stored
Collect(s) ==
    /\ pc = "collect"
    /\ s \in futures
    /\ tpc[s] = "done"
    /\ LET r == TaskResult(s) IN
          /\ folder_sizes' = [d \in DOMAIN folder_sizes \cup {r[1]} |->
                                 IF d = r[1] THEN r[3] ELSE folder_sizes[d]]
          /\ files_sizes' = [d \in DOMAIN files_sizes \cup {r[1]} |->
                                 IF d = r[1] THEN r[2] ELSE files_sizes[d]]
          /\ tpc' = [tpc EXCEPT ![s] = "stored"]
    /\ UNCHANGED <<pc, history, listing, directory, files_info, futures, tfiles, ttotal,
                   npc, nres, skips, submitted, split, out, event, fsVars, fs_static, fmtVars>>

\* a pass that appends its directory to the history when it plots
Plot_RecordsHistory ==
    /\ pc = "collect"
    /\ \A s \in futures : tpc[s] = "stored"
    /\ pc' = "shown"
    /\ history' = Append(history, directory)
    /\ UNCHANGED <<directory, folder_sizes, files_sizes, files_info,
                   passVars, out, event, fsVars, fs_static, fmtVars>>

\* a pass that shows the maps without waiting for its futures
Plot_NoBarrier ==
    /\ pc = "collect"
    /\ pc' = "shown"
    /\ UNCHANGED <<history, directory, folder_sizes, files_sizes, files_info,
                   passVars, out, event, fsVars, fs_static, fmtVars>>

\* perform_analysis, line 120: every future was collected, the pool is shut
\* down and plot_folder_sizes shows the maps
Plot ==
    /\ pc = "collect"
    /\ \A s \in futures : tpc[s] = "stored"
    /\ pc' = "shown"
    /\ UNCHANGED <<history, directory, folder_sizes, files_sizes, files_info,
                   passVars, out, event, fsVars, fs_static, fmtVars>>

\* any step of a pass: of the main thread inside perform_analysis, of a
\* worker of the pass's pool or of a worker of a split_analysis pool
PassStep ==
    \/ Submit
    \/ RootFiles
    \/ \E s \in Dirs :
          \/ TaskStart(s)
          \/ AnalyzeFolderFiles(s)
          \/ GetTotalWalk(s)
          \/ ElapsedCheck(s)
          \/ SplitSubmit(s)
          \/ NestedStart(s)
          \/ NestedRun(s)
          \/ SplitJoin(s)
          \/ Collect(s)
    \/ Plot

\* ------------------------------------------------ the plot window's events
\* a guard that is off by one
go_back_pops_OffByOne(h) == Len(h) > 2

\* go_back, line 181: the guard of the pop
go_back_pops(h) == Len(h) > 1

\* go_back, line 182: history.pop()
Popped(h) == SubSeq(h, 1, Len(h) - 1)

\* go_back, lines 180-184: the ".." button.  After a pop the callback
\* perform_analysis(history[-1]) starts a new pass.
go_back ==
    /\ pc = "shown"
    /\ event' = <<"back", history>>
    /\ IF go_back_pops(history)
       THEN /\ history' = Popped(history)
            /\ BeginPass(history'[Len(history')])
            /\ out' = "analyzing"
       ELSE UNCHANGED <<pc, history, directory, folder_sizes, files_sizes,
                        files_info, passVars, out, fs_static>>
    /\ UNCHANGED <<fsVars, fmtVars>>

\* plot_folder_sizes, lines 155-189: what a mouse click on the bar of
\* target does to the history.  The only canvas handler connected is
\* update_tooltip on motion_notify_event (line 178), which touches the
\* annotation alone; no handler takes a click.
AfterClick(h, target) == h

Click(target) ==
    /\ pc = "shown"
    /\ target \in DOMAIN folder_sizes \cup DOMAIN files_info
    /\ event' = <<"click", target, history>>
    /\ history' = AfterClick(history, target)
    /\ UNCHANGED <<pc, directory, folder_sizes, files_sizes, files_info,
                   passVars, out, fsVars, fs_static, fmtVars>>

\* the window is closed: plt.show() (line 189) and analyze_and_plot return
\* to the loop of lines 193-198, and analyze_and_plot's locals are gone
CloseFig ==
    /\ pc = "shown"
    /\ pc' = "idle"
    /\ history' = <<>>
    /\ directory' = "none"
    /\ folder_sizes' = EmptyMap
    /\ files_sizes' = EmptyMap
    /\ files_info' = EmptyMap
    /\ ResetPass
    /\ out' = "none"
    /\ event' = <<"none">>
    /\ UNCHANGED <<fsVars, fs_static, fmtVars>>

\* lines 195-197: the folder picker is cancelled
Exit ==
    /\ pc = "idle"
    /\ pc' = "exited"
    /\ out' = "No folder selected. Exiting..."
    /\ UNCHANGED <<history, directory, folder_sizes, files_sizes, files_info,
                   passVars, event, fsVars, fs_static, fmtVars>>

\* ------------------------------------------------------------ environment
\* another process makes a directory unreadable, removes it or restores it
FsChange(d, st) ==
    /\ fsChanges < MaxFsChanges
    /\ pc \notin {"crashed", "exited"}
    /\ status[d] # st
    /\ status' = [status EXCEPT ![d] = st]
    /\ fsChanges' = fsChanges + 1
    /\ fs_static' = FALSE
    /\ UNCHANGED <<pc, history, directory, folder_sizes, files_sizes, files_info,
                   passVars, out, event, fsize, unstat, fmtVars>>

\* a file becomes one whose is_file()/stat() raises PermissionError, or
\* stops being one
FileFault(x) ==
    /\ fsChanges < MaxFsChanges
    /\ pc \notin {"crashed", "exited"}
    /\ x \in DOMAIN fsize
    /\ unstat' = IF x \in unstat THEN unstat \ {x} ELSE unstat \cup {x}
    /\ fsChanges' = fsChanges + 1
    /\ fs_static' = FALSE
    /\ UNCHANGED <<pc, history, directory, folder_sizes, files_sizes, files_info,
                   passVars, out, event, status, fsize, fmtVars>>

\* ------------------------------------------------------------------- Next
Next ==
    \/ \E t \in Targets : analyze_and_plot(t)
    \/ Submit
    \/ RootFiles
    \/ \E s \in Dirs : TaskStart(s)
    \/ \E s \in Dirs : AnalyzeFolderFiles(s)
    \/ \E s \in Dirs : GetTotalWalk(s)
    \/ \E s \in Dirs : ElapsedCheck(s)
    \/ \E s \in Dirs : SplitSubmit(s)
    \/ \E c \in Dirs : NestedStart(c)
    \/ \E c \in Dirs : NestedRun(c)
    \/ \E s \in Dirs : SplitJoin(s)
    \/ \E s \in Dirs : Collect(s)
    \/ Plot
    \/ go_back
    \/ \E t \in Dirs \cup Files : Click(t)
    \/ CloseFig
    \/ Exit
    \/ \E d \in Dirs, st \in Status : FsChange(d, st)
    \/ \E x \in Files : FileFault(x)

Spec == Init /\ [][Next]_vars

\* ---------------------------------------------------------------- SpecNav
\* plot_folder_sizes and perform_analysis take the history as a parameter.
\* SpecNav adds to Spec's behaviours those that begin with perform_analysis
\* called on the top of any drill-down path of the tree of length up to
\* MaxHist, so that both branches of go_back are exercised; in these every
\* file has MaxSize bytes.
NavHistories ==
    {h \in UNION {[1..n -> Dirs] : n \in 1..MaxHist} :
        /\ h[1] \in Targets
        /\ \A i \in 1..(Len(h) - 1) : ParentOf(h[i + 1]) = h[i]}

InitNav ==
    \/ Init
    \/ /\ pc = "submit"
       /\ history \in NavHistories
       /\ directory = history[Len(history)]
       /\ folder_sizes = EmptyMap
       /\ files_sizes = EmptyMap
       /\ files_info = EmptyMap
       /\ NoPass
       /\ out = "analyzing"
       /\ event = <<"none">>
       /\ status = [d \in Dirs |-> "ok"]
       /\ fsize = [x \in BaseFiles |-> MaxSize]
       /\ unstat = {}
    /\ fsChanges = 0
       /\ fs_static = TRUE
       /\ NoFormat

SpecNav == InitNav /\ [][Next]_vars

\* ----------------------------------------------------------- SpecScenario
\* the program started on the tree  R/{f, A/{a}, B/{b, b2}}  with f of 500
\* bytes, a of 2000 bytes and b, b2 of 10 bytes each; A1 does not exist
InitScenario ==
    /\ pc = "idle"
    /\ history = <<>>
    /\ directory = "none"
    /\ folder_sizes = EmptyMap
    /\ files_sizes = EmptyMap
    /\ files_info = EmptyMap
    /\ NoPass
    /\ out = "none"
    /\ event = <<"none">>
    /\ status = [d \in Dirs |-> IF d = "A1" THEN "gone" ELSE "ok"]
    /\ fsize = ("f" :> 500) @@ ("a" :> 2000) @@ ("b" :> 10) @@ ("b2" :> 10)
    /\ unstat = {}
    /\ fsChanges = 0
    /\ fs_static = TRUE
    /\ NoFormat

SpecScenario == InitScenario /\ [][Next]_vars

\* ------------------------------------------------------------- SpecFormat
\* format_size on its own, called on sizes around its thresholds, around
\* twice each threshold and at both ends of the 32-bit range
FormatInputs ==
    {b + k : b \in {1024, 2048, 1048576, 2097152, 1073741824}, k \in (0 - MaxOff)..MaxOff}
    \cup (0..MaxOff) \cup {2147483647 - k : k \in 0..MaxOff}

InitFormat ==
    /\ pc = "idle"
    /\ history = <<>>
    /\ directory = "none"
    /\ folder_sizes = EmptyMap
    /\ files_sizes = EmptyMap
    /\ files_info = EmptyMap
    /\ NoPass
    /\ out = "none"
    /\ event = <<"none">>
    /\ status = [d \in Dirs |-> "ok"]
    /\ fsize = [x \in BaseFiles |-> 0]
    /\ unstat = {}
    /\ fsChanges = 0
    /\ fs_static = TRUE
    /\ size \in FormatInputs
    /\ formatted = <<>>

\* one call  format_size(size)
FormatSize ==
    /\ formatted' = <<size, format_size(size)>>
    /\ size' \in FormatInputs
    /\ UNCHANGED <<pc, history, directory, folder_sizes, files_sizes, files_info,
                   passVars, out, event, fsVars, fs_static>>

NextFormat == FormatSize

SpecFormat == InitFormat /\ [][NextFormat]_vars

\* =================================================================== claims
\* plot_folder_sizes, line 133: total_dir_size
GrandTotal ==
    SumOver(DOMAIN folder_sizes, folder_sizes) + SumOver(DOMAIN files_info, files_info)

\* reference walk: the bytes of every file under d, whatever the permissions
RECURSIVE TreeSize(_)
TreeSize(d) ==
    SumOver({x \in DOMAIN fsize : DirOf(x) = d}, fsize)
    + SumOver({c \in Dirs : ParentOf(c) = d /\ status[c] # "gone"},
              [c \in Dirs |-> TreeSize(c)])

PassDone == pc = "shown"

\* the tree did not change during the pass and holds nothing unreadable
ReadableStaticTree == fs_static /\ unstat = {} /\ \A d \in Dirs : status[d] # "denied"

\* C1 (conservation): when a pass over a static tree of readable files and
\* directories has completed, the subfolder totals plus the root files'
\* sizes add up to the size of the tree as a reference walk computes it.
C1_Conservation ==
    (PassDone /\ ReadableStaticTree) => GrandTotal = TreeSize(directory)

\* C2 (split-invariance): on a static tree, the total a task ends with after
\* the split branch was taken equals the total of the walk without the split.
C2_SplitInvariance ==
    \A s \in split :
        (tpc[s] \in {"done", "stored"} /\ fs_static) => ttotal[s] = WalkTotal(s)

\* C3 (snapshot invariant): in the snapshot of a completed pass every
\* subfolder has total_size >= files_size >= 0.
C3_SnapshotInvariant ==
    PassDone =>
        \A s \in DOMAIN folder_sizes :
            /\ s \in DOMAIN files_sizes
            /\ folder_sizes[s] >= files_sizes[s]
            /\ files_sizes[s] >= 0

\* C4 (one task, one entry): a pass submits at most one task per subfolder,
\* and when it has completed both result maps have exactly the subfolders
\* that existed at the listing as keys, also when one of them has
\* disappeared since.
C4_OneEntryPerSubfolder ==
    /\ \A d \in Dirs : submitted[d] <= 1
    /\ PassDone =>
          /\ DOMAIN folder_sizes = listing
          /\ DOMAIN files_sizes = listing
          /\ \A d \in Dirs : submitted[d] = (IF d \in listing THEN 1 ELSE 0)

\* a completed pass that kept the entry of a subfolder which was gone when
\* its task looked at it
C4_Witness ==
    /\ PassDone
    /\ \E s \in listing :
          status[s] = "gone" /\ skips[s] > 0 /\ s \in DOMAIN folder_sizes

\* C5 (failed subfolder): a subfolder whose task met an error (a skip line
\* was printed for it) has the entry (0, 0) in the completed pass.
C5_FailedEntryIsZero ==
    PassDone =>
        \A s \in DOMAIN folder_sizes :
            skips[s] > 0 => (folder_sizes[s] = 0 /\ files_sizes[s] = 0)

\* the pass's directory has exactly one unreadable subfolder, s, and the
\* tree did not change during the pass
OnlyUnreadable(s) ==
    /\ fs_static
    /\ unstat = {}
    /\ s \in listing
    /\ \A d \in Dirs : (status[d] = "denied") = (d = s)

\* C6 (skip tolerance): with exactly one unreadable subfolder s, the grand
\* total is the tree's size less the size of s's subtree, one skip line is
\* printed for s, and every other entry is what it is for the readable tree.
C6_SkipTolerance ==
    \A s \in Dirs :
        (PassDone /\ OnlyUnreadable(s)) =>
            /\ folder_sizes[s] = 0 /\ files_sizes[s] = 0
            /\ skips[s] = 1
            /\ \A t \in listing \ {s} :
                  folder_sizes[t] = TreeSize(t) /\ files_sizes[t] = ImmediateFilesSize(t)
            /\ files_info = [x \in {y \in DOMAIN fsize : DirOf(y) = directory} |-> fsize[x]]
            /\ GrandTotal = TreeSize(directory) - TreeSize(s)

\* what the window shows: the position of the main thread and the snapshot
Displayed == <<pc, directory, folder_sizes, files_sizes, files_info>>

\* C7 (history floor): while analyze_and_plot's history exists it is never
\* empty; go_back on a history of one element changes neither the history
\* nor what is displayed and starts no pass; go_back on a longer history
\* removes exactly the last element.
C7_HistoryFloor ==
    /\ [](pc \notin {"idle", "exited"} => Len(history) >= 1)
    /\ [][go_back =>
            IF Len(history) = 1
            THEN /\ history' = history
                 /\ Displayed' = Displayed
                 /\ passVars' = passVars
            ELSE /\ Len(history') = Len(history) - 1
                 /\ \A i \in 1..Len(history') : history'[i] = history[i]
                 /\ directory' = history[Len(history) - 1]]_vars

\* the ".." button was pressed on a history of one element
C7_Witness ==
    /\ pc = "shown"
    /\ event[1] = "back"
    /\ Len(event[2]) = 1
    /\ history = event[2]

\* C8 (drill-down): a click on the bar of a subfolder of the displayed
\* snapshot appends that subfolder to the history; a click on anything else
\* leaves the history alone.
C8_DrillDownPushes ==
    [][\A t \in Dirs \cup Files :
          Click(t) =>
              IF t \in DOMAIN folder_sizes
              THEN history' = Append(history, t)
              ELSE history' = history]_vars

\* C9 (navigation idempotence): on an unchanged filesystem, a drill-down on
\* a displayed subfolder followed by go_back restores the history as it was before the drill-down
\* and starts the pass on its top that rebuilds the snapshot.
C9_NavigationIdempotence ==
    [][(fsChanges = 0 /\ event[1] = "click" /\ event[2] \in DOMAIN folder_sizes
          /\ go_back) =>
          /\ history' = event[3]
          /\ pc' = "submit"
          /\ directory' = event[3][Len(event[3])]]_vars

\* reference: the path names a directory of the tree and every component of
\* it is there
NamesDirectory(t) ==
    /\ t \in Dirs
    /\ status[t] # "gone"
    /\ \A a \in Dirs : (a = ParentOf(t) \/ a = ParentOf(ParentOf(t))) => status[a] # "gone"

\* C10 (bad path): analyze_and_plot on a path that is no existing directory
\* submits no task, produces no snapshot and creates no history; on an
\* existing directory it creates the history and starts a pass on it.
C10_BadPathRejected ==
    [][\A t \in Targets :
          analyze_and_plot(t) =>
              IF NamesDirectory(t)
              THEN /\ pc' = "submit"
                   /\ directory' = t
                   /\ history' = <<t>>
              ELSE /\ pc' = "idle"
                   /\ history' = <<>>
                   /\ submitted' = ZeroDirs /\ futures' = {}
                   /\ folder_sizes' = EmptyMap
                   /\ files_sizes' = EmptyMap
                   /\ files_info' = EmptyMap]_vars

\* a picked path was refused
C10_Witness ==
    /\ out = "Directory does not exist."
    /\ pc = "idle"
    /\ history = <<>>

\* a completed pass over R on the tree of SpecScenario as it was at the start
ScenarioPassDone == PassDone /\ directory = "R" /\ fsChanges = 0

\* C11 as stated: the pass over the scenario tree yields A -> (0, 2000),
\* B -> (0, 20), the root files {f: 500} and the total 2520.
C11_ScenarioAsStated ==
    ScenarioPassDone =>
        /\ files_sizes = ("A" :> 0) @@ ("B" :> 0)
        /\ folder_sizes = ("A" :> 2000) @@ ("B" :> 20)
        /\ files_info = ("f" :> 500)
        /\ GrandTotal = 2520

\* C11 (concrete scenario), amended: the pass over the scenario tree yields
\* the immediate-files sizes A -> 2000 and B -> 20 and the root files
\* {f: 500}; the total of A is 2000 and that of B is 20, so that the grand
\* total is 2520, except that a subfolder whose walk took the split branch
\* has the total 0.
C11_Scenario ==
    ScenarioPassDone =>
        /\ files_sizes = ("A" :> 2000) @@ ("B" :> 20)
        /\ files_info = ("f" :> 500)
        /\ folder_sizes = ("A" :> (IF "A" \in split THEN 0 ELSE 2000))
                          @@ ("B" :> (IF "B" \in split THEN 0 ELSE 20))
        /\ (split = {} => GrandTotal = 2520)

\* the scenario's pass completed with no walk split and the total 2520
C11_Witness ==
    /\ ScenarioPassDone
    /\ split = {}
    /\ folder_sizes = ("A" :> 2000) @@ ("B" :> 20)
    /\ GrandTotal = 2520

\* the bytes of a unit, as powers of 1024
UnitBytes(u) ==
    CASE u = "B" -> 1 [] u = "KB" -> 1024 [] u = "MB" -> 1024 * 1024
      [] u = "GB" -> 1024 * 1024 * 1024

\* C12 (format_size): a size in [0, 1023] is shown in B, one in
\* [1024, 1048575] in KB, one in [1048576, 1073741823] in MB and one of
\* 1073741824 or more in GB (so 1023 -> B, 1024 -> KB, 1048575 -> KB,
\* 1048576 -> MB); the number shown is the floor of the size divided by
\* the unit.
C12_FormatSize ==
    formatted # <<>> =>
        LET n == formatted[1]
            number == formatted[2][1]
            unit == formatted[2][2]
        IN  /\ unit = (IF n <= 1023 THEN "B"
                       ELSE IF n <= 1048575 THEN "KB"
                       ELSE IF n <= 1073741823 THEN "MB" ELSE "GB")
            /\ number >= 0
            /\ number * UnitBytes(unit) <= n
            /\ n - number * UnitBytes(unit) < UnitBytes(unit)
            /\ (n = 1023 => formatted[2] = <<1023, "B">>)
            /\ (n = 1024 => formatted[2] = <<1, "KB">>)
            /\ (n = 1048575 => formatted[2] = <<1023, "KB">>)
            /\ (n = 1048576 => formatted[2] = <<1, "MB">>)

\* format_size was called on the last size below the MB threshold
C12_Witness == formatted = <<1048575, <<1023, "KB">>>>

\* a pass was started and has not handed its snapshot to plot_folder_sizes
PassOpen == pc \in {"submit", "rootfiles", "collect", "crashed"}

\* C13 (termination): every started pass reaches its barrier and hands a
\* snapshot to plot_folder_sizes: in no interleaving is a pass left that
\* has not reached the barrier and cannot take a step.
C13_EveryPassReachesBarrier == PassOpen => ENABLED PassStep

\* C14 (pool bound): at every moment the walk tasks that are executing, the
\* per-subfolder tasks together with the tasks split_analysis submitted,
\* are at most max_workers.
C14_PoolBound == Cardinality(Busy) + Cardinality(NestedRunning) <= max_workers

\* the three maps of the snapshot
Maps == <<folder_sizes, files_sizes, files_info>>

\* a step of the main thread: the only thread that runs perform_analysis,
\* plot_folder_sizes and the window's handlers
MainThreadStep ==
    \/ \E t \in Targets : analyze_and_plot(t)
    \/ Submit
    \/ RootFiles
    \/ \E s \in Dirs : Collect(s)
    \/ Plot
    \/ go_back
    \/ CloseFig

\* C15 (barrier): plot_folder_sizes has the maps only when every submitted
\* task has completed and its result is stored, and no task is running
\* then; a pass writes each key at most once; the maps are written by the
\* main thread alone and, while they are shown, by nothing but the restart
\* or the end of the window.
C15_Barrier ==
    /\ [](pc = "shown" =>
            /\ \A s \in futures :
                  tpc[s] = "stored" /\ s \in DOMAIN folder_sizes /\ s \in DOMAIN files_sizes
            /\ Busy = {} /\ NestedRunning = {}
            /\ \A d \in Dirs : tpc[d] # "queued" /\ npc[d] # "queued")
    /\ [][\A s \in Dirs :
            Collect(s) => (s \notin DOMAIN folder_sizes /\ s \notin DOMAIN files_sizes)]_vars
    /\ [][Maps' # Maps =>
            /\ MainThreadStep
            /\ (pc = "shown" => (go_back \/ CloseFig))]_vars

\* a pass over two subfolders, one of them split, has reached the barrier
C15_Witness ==
    /\ pc = "shown"
    /\ DOMAIN folder_sizes = {"A", "B"}
    /\ split # {}
    /\ \A s \in futures : tpc[s] = "stored"

\* the listing of d or the look at one of its entries raises
ListingRaises(d) == status[d] # "ok" \/ BadFilesIn(d) # {}

\* C16 (errors become skips): an error met by the root-level file scan, also
\* when the listing of the root itself fails, or by a step of a subfolder
\* task, prints a skip line and does not abort the pass.
C16_ErrorsAreSkips ==
    [][/\ RootFiles =>
            /\ pc' = "collect"
            /\ (ListingRaises(directory) => skips' # skips)
       /\ \A s \in Dirs :
            /\ (AnalyzeFolderFiles(s) \/ SplitSubmit(s)) =>
                  /\ pc' = pc
                  /\ (ListingRaises(s) => skips'[s] = skips[s] + 1)
            /\ GetTotalWalk(s) =>
                  /\ pc' = pc
                  /\ (ListingRaises(s) => skips'[s] = skips[s] + 1)
                  /\ (~ListingRaises(s) =>
                         \A c \in ListedDirs(s) :
                            ListingRaises(c) => skips'[c] = skips[c] + 1)
            /\ NestedRun(s) =>
                  /\ pc' = pc
                  /\ (ListingRaises(s) => skips'[s] = skips[s] + 1)]_vars

\* reference: the bytes of the files under d that can be read
RECURSIVE ReadableSize(_)
ReadableSize(d) ==
    IF status[d] # "ok" THEN 0
    ELSE SumOver({x \in DOMAIN fsize : DirOf(x) = d /\ x \notin unstat}, fsize)
         + SumOver({c \in Dirs : ParentOf(c) = d /\ status[c] # "gone"},
                   [c \in Dirs |-> ReadableSize(c)])

\* the entries inside the subtree of d that cannot be read
RECURSIVE UnreadableUnder(_)
UnreadableUnder(d) ==
    IF status[d] # "ok" THEN {}
    ELSE {x \in DOMAIN fsize : DirOf(x) = d /\ x \in unstat}
         \cup {c \in Dirs : ParentOf(c) = d /\ status[c] = "denied"}
         \cup UNION {UnreadableUnder(c) : c \in {e \in Dirs : ParentOf(e) = d}}

\* C17 (the walk continues past a skip): when an entry inside the subtree
\* cannot be read, get_total_folder_size and analyze_subfolder print a skip
\* line and still return the sum of all the other readable files of the
\* subtree, wherever in the enumeration the unreadable entry comes.
C17_WalkContinues ==
    [][\A s \in Dirs :
          /\ (GetTotalWalk(s) /\ UnreadableUnder(s) # {}) =>
                /\ ttotal'[s] = ReadableSize(s)
                /\ skips' # skips
          /\ (NestedRun(s) /\ UnreadableUnder(s) # {}) =>
                /\ nres'[s] = ReadableSize(s)
                /\ skips' # skips]_vars

\* a pass is under way or its snapshot is displayed
HistoryInUse == pc \in {"submit", "rootfiles", "collect", "shown"}

\* C18 (one pass per navigation): the directory of the pass under way or
\* displayed is the top of the history; a change of the top starts a pass
\* on the new top, with the maps cleared, before anything is displayed, and
\* no pass starts while another is under way; what is displayed has the
\* keys the latest pass listed and the values its tasks returned.
C18_OnePassPerNavigation ==
    /\ [](HistoryInUse => directory = history[Len(history)])
    /\ [](pc = "shown" =>
            /\ DOMAIN folder_sizes = listing
            /\ DOMAIN files_sizes = listing
            /\ \A s \in listing :
                  /\ ParentOf(s) = directory
                  /\ folder_sizes[s] = ttotal[s]
                  /\ files_sizes[s] = tfiles[s]
            /\ \A x \in DOMAIN files_info : DirOf(x) = directory)
    /\ [][(HistoryInUse /\ HistoryInUse' /\ history' # history) =>
            /\ pc' = "submit"
            /\ directory' = history'[Len(history')]
            /\ folder_sizes' = EmptyMap
            /\ files_sizes' = EmptyMap
            /\ files_info' = EmptyMap
            /\ futures' = {}]_vars
    /\ [][(pc' = "submit" /\ pc # "submit") => pc \in {"idle", "shown"}]_vars

\* the snapshot of the pass that a pop of the history started is displayed
C18_Witness ==
    /\ pc = "shown"
    /\ event[1] = "back"
    /\ Len(event[2]) = 2
    /\ history = <<event[2][1]>>
    /\ directory = history[1]
    /\ folder_sizes # EmptyMap

\* C19 (single writer): while the history is in use it is changed by
\* go_back alone; every step of a pass leaves it as it is.
C19_HistorySingleWriter ==
    [][/\ PassStep => history' = history
       /\ (HistoryInUse /\ HistoryInUse' /\ history' # history) => go_back]_vars

\* a pass that a pop of the history started has stored a result
C19_Witness ==
    /\ pc = "collect"
    /\ event[1] = "back"
    /\ Len(event[2]) = Len(history) + 1
    /\ \E s \in futures : tpc[s] = "stored"

====
